---- MODULE Spec2Model ----
(***************************************************************************)
(* A model of tidal_analysis.py: the record parser and series merger       *)
(* (read_tidal_data, join_data), the windowing functions                   *)
(* (extract_single_year_remove_mean, extract_section_remove_mean), the     *)
(* contiguity finder (get_longest_contiguous_data), the two calls into the *)
(* numerical collaborators (sea_level_rise, tidal_analysis) and the        *)
(* command-line run.                                                       *)
(*                                                                         *)
(* A DataFrame is a sequence of rows [Time, Cycle, SeaLevel, Residual].    *)
(* Time is an integer tick.  A cell is a record [k, n, d, f]:              *)
(*   k = "num" : the float n/d (d > 0, lowest terms)                       *)
(*   k = "nan" : the missing marker np.nan                                 *)
(*   k = "str" : the raw text of the literal n followed by the suffix f    *)
(* Floats are modelled as exact rationals.                                 *)
(***************************************************************************)
EXTENDS Integers, Sequences, FiniteSets, TLC

VARIABLES
    pc,     \* position of the caller / of the run
    dir,    \* the files of the directory, in os.listdir order: raw rows each
    data,   \* read_tidal_data's list `data` of parsed per-file frames
    data1,  \* a DataFrame held by the caller (first argument)
    data2,  \* a DataFrame held by the caller (second argument of join_data)
    args,   \* the last call: its name and scalar arguments
    ret,    \* what the last call returned
    err,    \* the exception the last call raised, "none" otherwise
    out     \* lines printed on standard output

vars == <<pc, dir, data, data1, data2, args, ret, err, out>>

(***************************************************************************)
(* Bounds of the model.                                                    *)
(***************************************************************************)
MaxRun == 8      \* longest series given to the contiguity finder
MaxLen == 3      \* longest series given to windowing, joining and analysis
MaxTime == 2     \* ticks are 0 .. MaxTime
MaxRows == 2     \* most data rows in one file

\* Ticks in one calendar year of the model's clock, and the first year.
TicksPerYear == 2
Times == 0 .. MaxTime
YearOf(t) == t \div TicksPerYear
Years == {YearOf(t) : t \in Times} \cup {YearOf(MaxTime) + 1}

(***************************************************************************)
(* Cells.                                                                  *)
(***************************************************************************)
NaN == [k |-> "nan", n |-> 0, d |-> 1, f |-> ""]
Num(n) == [k |-> "num", n |-> n, d |-> 1, f |-> ""]
Str(n, f) == [k |-> "str", n |-> n, d |-> 1, f |-> f]

Abs(x) == IF x < 0 THEN -x ELSE x

RECURSIVE GCD(_, _)
GCD(a, b) == IF b = 0 THEN a ELSE GCD(b, a % b)

\* The float n/d, d # 0, in lowest terms with a positive denominator.
Rat(n, d) ==
    LET g == GCD(Abs(n), Abs(d))
        s == IF d < 0 THEN -1 ELSE 1
    IN  [k |-> "num", n |-> (s * n) \div g, d |-> (s * d) \div g, f |-> ""]

FAdd(a, b) == Rat(a.n * b.d + b.n * a.d, a.d * b.d)

\* Float subtraction: NaN if either operand is NaN.
FSub(a, b) ==
    IF a.k = "nan" \/ b.k = "nan" THEN NaN
    ELSE Rat(a.n * b.d - b.n * a.d, a.d * b.d)

\* pd.notna / Series.notna of one cell
notna(c) == c.k # "nan"

SeqsUpTo(S, n) == UNION {[1 .. k -> S] : k \in 0 .. n}

(***************************************************************************)
(* pandas primitives on sequences.                                         *)
(***************************************************************************)
Idx(s) == 1 .. Len(s)

\* s[m] for a boolean mask m of the same length: the rows where m holds, in
\* order, as a new object.
BoolIndex(s, m) ==
    LET F[i \in 0 .. Len(s)] ==
            IF i = 0 THEN <<>>
            ELSE IF m[i] THEN Append(F[i - 1], s[i]) ELSE F[i - 1]
    IN  F[Len(s)]

\* The column 'Sea Level' of a frame.
SeaLevelCol(df) == [i \in Idx(df) |-> df[i].SeaLevel]

\* Series.astype(int) of a boolean series
astype_int(m) == [i \in Idx(m) |-> IF m[i] THEN 1 ELSE 0]

\* Series.diff(): the first element is missing
diff(s) ==
    [i \in Idx(s) |->
        IF i = 1 THEN [na |-> TRUE, v |-> 0]
        ELSE [na |-> FALSE, v |-> s[i] - s[i - 1]]]

\* Series.fillna(0)
fillna0(s) == [i \in Idx(s) |-> IF s[i].na THEN 0 ELSE s[i].v]

\* Series.ne(0)
ne0(s) == [i \in Idx(s) |-> s[i] # 0]

\* Series.cumsum() of a boolean series
cumsum(b) == [i \in Idx(b) |-> Cardinality({j \in 1 .. i : b[j]})]

\* groupby(keys).size(): one <<key, size>> per distinct key, keys ascending.
RECURSIVE SortedSeqOf(_)
SortedSeqOf(S) ==
    IF S = {} THEN <<>>
    ELSE LET m == CHOOSE x \in S : \A y \in S : x <= y
         IN  <<m>> \o SortedSeqOf(S \ {m})

groupby_size(keys) ==
    LET ks == SortedSeqOf({keys[i] : i \in Idx(keys)})
    IN  [g \in Idx(ks) |->
            [key |-> ks[g],
             size |-> Cardinality({i \in Idx(keys) : keys[i] = ks[g]})]]

\* Series.idxmax(): the label of the first maximum; the caller handles empty.
idxmax_first(sz) ==
    LET best == CHOOSE g \in Idx(sz) :
                    /\ \A h \in Idx(sz) : sz[h].size <= sz[g].size
                    /\ \A h \in Idx(sz) : sz[h].size = sz[g].size => g <= h
    IN  sz[best].key

idxmax_last(sz) ==
    LET best == CHOOSE g \in Idx(sz) :
                    /\ \A h \in Idx(sz) : sz[h].size <= sz[g].size
                    /\ \A h \in Idx(sz) : sz[h].size = sz[g].size => h <= g
    IN  sz[best].key

idxmax(sz) == idxmax_first(sz)

(***************************************************************************)
(* get_longest_contiguous_data                                             *)
(***************************************************************************)
valid_data_mask(df) == [i \in Idx(df) |-> notna(df[i].SeaLevel)]

blocks(df) == cumsum(ne0(fillna0(diff(astype_int(valid_data_mask(df))))))

\* A mutant: an empty selection yields an empty segment instead of raising.
get_longest_quiet(df) ==
    LET mask == valid_data_mask(df)
        filtered_data == BoolIndex(df, mask)
        fblocks == BoolIndex(blocks(df), mask)
        sizes == groupby_size(fblocks)
    IN  IF Len(sizes) = 0 THEN [err |-> "none", ret |-> <<>>]
        ELSE LET longest_block == idxmax(sizes)
             IN  [err |-> "none",
                  ret |-> BoolIndex(filtered_data,
                            [i \in Idx(fblocks) |-> fblocks[i] = longest_block])]

get_longest_contiguous_data(df) ==
    LET mask == valid_data_mask(df)
        filtered_data == BoolIndex(df, mask)
        fblocks == BoolIndex(blocks(df), mask)
        sizes == groupby_size(fblocks)
    IN  IF Len(sizes) = 0
        THEN [err |-> "ValueError", ret |-> <<>>]   \* idxmax of an empty Series
        ELSE LET longest_block == idxmax(sizes)
             IN  [err |-> "none",
                  ret |-> BoolIndex(filtered_data,
                            [i \in Idx(fblocks) |-> fblocks[i] = longest_block])]

(***************************************************************************)
(* The contiguity finder on its own: SpecContig.                           *)
(* A series of 0 .. MaxRun rows, one per tick, each present or missing.    *)
(***************************************************************************)
MaskSeries(m) ==
    [i \in Idx(m) |->
        [Time |-> i, Cycle |-> i,
         SeaLevel |-> IF m[i] THEN Num(i) ELSE NaN,
         Residual |-> Num(0)]]

ContigInputs ==
    UNION {{MaskSeries(m) : m \in [1 .. n -> BOOLEAN]} : n \in 0 .. MaxRun}

InitContig ==
    /\ pc = "idle"
    /\ dir = <<>>
    /\ data = <<>>
    /\ data1 \in ContigInputs
    /\ data2 = <<>>
    /\ args = [op |-> "none"]
    /\ ret = <<>>
    /\ err = "none"
    /\ out = <<>>

GetLongest ==
    /\ pc = "idle"
    /\ LET r == get_longest_contiguous_data(data1)
       IN  /\ ret' = r.ret
           /\ err' = r.err
    /\ args' = [op |-> "get_longest_contiguous_data"]
    /\ pc' = "returned"
    /\ UNCHANGED <<dir, data, data1, data2, out>>

NextContig == GetLongest

SpecContig == InitContig /\ [][NextContig]_vars

(***************************************************************************)
(* read_tidal_data: the record parser.                                     *)
(* A file is its data rows (the 11 header lines are skipped): raw rows     *)
(* [Cycle, Date, Tod, SeaLevel, Residual] whose SeaLevel and Residual are  *)
(* literals [n, f]: the decimal number n followed by the suffix f.         *)
(* f = "" is a plain number; "X" stands for a trailing character that is   *)
(* neither a flag letter nor part of a number.                             *)
(***************************************************************************)
FlagLetters == {"M", "N", "T"}
Suffixes == {""} \cup FlagLetters \cup {"X"}

\* pd.read_table infers one dtype per column: float64 when every literal of
\* the column is a number, object (the raw strings) otherwise.
read_column(lits) ==
    IF \A i \in Idx(lits) : lits[i].f = ""
    THEN [i \in Idx(lits) |-> Num(lits[i].n)]
    ELSE [i \in Idx(lits) |-> Str(lits[i].n, lits[i].f)]

\* pd.to_datetime(Date + ' ' + Time): the tick of a date and a time of day
to_datetime(date, tod) == date * TicksPerYear + tod

read_table(file) ==
    LET sea == read_column([i \in Idx(file) |-> file[i].SeaLevel])
        res == read_column([i \in Idx(file) |-> file[i].Residual])
    IN  [i \in Idx(file) |->
            [Time |-> to_datetime(file[i].Date, file[i].Tod),
             Cycle |-> file[i].Cycle,
             SeaLevel |-> sea[i],
             Residual |-> res[i]]]

\* A mutant: the pattern matches any trailing non-numeric character.
matches_any_suffix(c) == c.k = "str" /\ c.f # ""

\* The regular expression ".*[MNT]$" on one cell; only strings can match.
matches_MNT(c) == c.k = "str" /\ c.f \in FlagLetters

\* df.replace(to_replace=".*[MNT]$", value={'Sea Level': np.nan}, regex=True):
\* the dict names the columns the replacement is applied to.
replace_row(row) ==
    [row EXCEPT !.SeaLevel = IF matches_MNT(@) THEN NaN ELSE @]

\* float(text) of one cell: the text of a plain number converts, any other
\* text raises ValueError; a float or NaN is kept.
float_ok(c) == c.k # "str" \/ c.f = ""
to_float(c) == IF c.k = "str" THEN Num(c.n) ELSE c

\* The body of the loop over filenames (lines 33-43) for one file.
parse_file(file) ==
    LET df == [i \in Idx(file) |-> replace_row(read_table(file)[i])]
    IN  IF \A i \in Idx(df) : float_ok(df[i].SeaLevel)
        THEN [err |-> "none",
              df |-> [i \in Idx(df) |->
                        [df[i] EXCEPT !.SeaLevel = to_float(@)]]]
        ELSE [err |-> "ValueError", df |-> <<>>]

(***************************************************************************)
(* The series merger: pd.concat and sort_index.                            *)
(***************************************************************************)
RECURSIVE concat(_)
concat(frames) ==
    IF Len(frames) = 0 THEN <<>>
    ELSE Head(frames) \o concat(Tail(frames))

IsMonotonic(df) == \A i \in 1 .. Len(df) - 1 : df[i].Time <= df[i + 1].Time

Perms(df) ==
    {[i \in Idx(df) |-> df[p[i]]] :
        p \in {q \in [Idx(df) -> Idx(df)] :
                 \A a, b \in Idx(df) : a # b => q[a] # q[b]}}

\* A mutant: no check for an index that is already in order.
sort_index_always(df) == {s \in Perms(df) : IsMonotonic(s)}

\* A mutant: the frame is left as concatenated.
sort_index_skipped(df) == {df}

\* DataFrame.sort_index(inplace=True): the possible results.  An index that
\* is already non-decreasing is left as it is; otherwise the rows are
\* reordered by argsort with the default kind 'quicksort', which is not
\* stable: any non-decreasing arrangement of the rows can result.
sort_index(df) ==
    IF IsMonotonic(df) THEN {df}
    ELSE {s \in Perms(df) : IsMonotonic(s)}

(***************************************************************************)
(* read_tidal_data, step by step.                                          *)
(***************************************************************************)
\* One pass of the loop: parse the next file and append its frame to data;
\* an exception leaves read_tidal_data.
ReadFile ==
    /\ pc = "reading"
    /\ Len(data) < Len(dir)
    /\ LET r == parse_file(dir[Len(data) + 1])
       IN  IF r.err = "none"
           THEN /\ data' = Append(data, r.df)
                /\ UNCHANGED <<pc, ret, err>>
           ELSE /\ pc' = "returned"
                /\ err' = r.err
                /\ UNCHANGED <<data, ret>>
    /\ UNCHANGED <<dir, data1, data2, args, out>>

\* Lines 46-49: combine, sort and return.
Combine ==
    /\ pc = "reading"
    /\ Len(data) = Len(dir)
    /\ IF Len(data) = 0
       THEN /\ err' = "IndexError"     \* data[0] of an empty list
            /\ ret' = ret
       ELSE /\ \E sorted \in sort_index(IF Len(data) > 1 THEN concat(data)
                                        ELSE data[1]) :
                  ret' = sorted
            /\ err' = "none"
    /\ pc' = "returned"
    /\ UNCHANGED <<dir, data, data1, data2, args, out>>

(***************************************************************************)
(* join_data                                                               *)
(***************************************************************************)
join_data(d1, d2) == sort_index(concat(<<d1, d2>>))

JoinData ==
    /\ pc = "idle"
    /\ \E combined_data \in join_data(data1, data2) : ret' = combined_data
    /\ err' = "none"
    /\ args' = [op |-> "join_data"]
    /\ pc' = "returned"
    /\ UNCHANGED <<dir, data, data1, data2, out>>

(***************************************************************************)
(* The windowing functions.                                                *)
(* Inside a function a DataFrame object is [rows, view, base]: view tells  *)
(* that the object shares its values with the argument `data`, of which it *)
(* is rows base+1 .. base+Len(rows); a write into a view writes into the   *)
(* argument.                                                               *)
(***************************************************************************)
FMul(a, b) == Rat(a.n * b.n, a.d * b.d)

RECURSIVE FSum(_)
FSum(cells) ==
    IF Len(cells) = 0 THEN Num(0)
    ELSE FAdd(Head(cells), FSum(Tail(cells)))

\* A mutant: the mean over all rows, a missing value counted as 0.
mean_over_rows(col) ==
    LET present == BoolIndex(col, [i \in Idx(col) |-> notna(col[i])])
    IN  IF Len(col) = 0 THEN NaN
        ELSE FMul(FSum(present), Rat(1, Len(col)))

\* Series.mean(): the mean of the present values, NaN if there are none.
mean(col) ==
    LET present == BoolIndex(col, [i \in Idx(col) |-> notna(col[i])])
    IN  IF Len(present) = 0 THEN NaN
        ELSE FMul(FSum(present), Rat(1, Len(present)))

\* data[mask]: a new object.
bool_index(df, m) == [rows |-> BoolIndex(df, m), view |-> FALSE, base |-> 0]

\* A mutant: the end bound is excluded.
loc_slice_open(df, start, end) ==
    LET lo == 1 + Cardinality({i \in Idx(df) : df[i].Time < start})
        hi == Cardinality({i \in Idx(df) : df[i].Time < end})
    IN  [rows |-> SubSeq(df, lo, hi), view |-> TRUE, base |-> lo - 1]

\* data.loc[start:end] on a non-decreasing DatetimeIndex with date-time
\* bounds: the positions are found by binary search (left of start, right of
\* end) and the rows between them are returned as a view of data.
loc_slice(df, start, end) ==
    LET lo == 1 + Cardinality({i \in Idx(df) : df[i].Time < start})
        hi == Cardinality({i \in Idx(df) : df[i].Time <= end})
    IN  [rows |-> SubSeq(df, lo, hi), view |-> TRUE, base |-> lo - 1]

\* A mutant: no copy is taken.
copy_skipped(obj) == obj

\* DataFrame.copy(): a new object with the same rows.
copy(obj) == [rows |-> obj.rows, view |-> FALSE, base |-> 0]

\* obj['Sea Level'] -= m, in place: the object after the write, and the
\* argument `parent` after it.
isub_sea_level(obj, m, parent) ==
    LET rows == [i \in Idx(obj.rows) |->
                    [obj.rows[i] EXCEPT !.SeaLevel = FSub(@, m)]]
    IN  [obj |-> [obj EXCEPT !.rows = rows],
         parent |-> IF obj.view
                    THEN [i \in Idx(parent) |->
                            IF i > obj.base /\ i <= obj.base + Len(rows)
                            THEN rows[i - obj.base] ELSE parent[i]]
                    ELSE parent]

\* The result, and the argument `data` after the call.
extract_single_year_remove_mean(year, df) ==
    LET year_data == copy(bool_index(df,
                        [i \in Idx(df) |-> YearOf(df[i].Time) = year]))
        mean_sea_level == mean(SeaLevelCol(year_data.rows))
        r == isub_sea_level(year_data, mean_sea_level, df)
    IN  [ret |-> r.obj.rows, data |-> r.parent]

extract_section_remove_mean(start, end, df) ==
    LET section_data == copy(loc_slice(df, start, end))
        mean_sea_level == mean(SeaLevelCol(section_data.rows))
        r == isub_sea_level(section_data, mean_sea_level, df)
    IN  [ret |-> r.obj.rows, data |-> r.parent]

(***************************************************************************)
(* The calls into the numerical collaborators.                             *)
(* linregress refuses the inputs its own checks name.  Whether the         *)
(* harmonic fit succeeds on the samples it is given is decided inside      *)
(* uptide (a singular system may or may not be reported): lib is that      *)
(* verdict, "ok" or "raise".                                               *)
(***************************************************************************)
\* data.dropna(subset=["Sea Level"]): a new object.
dropna(df) == BoolIndex(df, valid_data_mask(df))

\* mdates.date2num: the number of a tick, counted from the epoch in ticks.
date2num(t) == t

\* scipy.stats.linregress: empty inputs and identical x values are refused;
\* the slope is the least-squares slope, NaN for a single point.
linregress(x, y) ==
    LET n == Len(x)
        X == [i \in Idx(x) |-> Num(x[i])]
        Sx == FSum(X)
        Sy == FSum(y)
        Sxy == FSum([i \in Idx(x) |-> FMul(X[i], y[i])])
        Sxx == FSum([i \in Idx(x) |-> FMul(X[i], X[i])])
        num == FSub(FMul(Num(n), Sxy), FMul(Sx, Sy))
        den == FSub(FMul(Num(n), Sxx), FMul(Sx, Sx))
    IN  IF n = 0 THEN [err |-> "ValueError", slope |-> NaN]
        ELSE IF n > 1 /\ \A i \in Idx(x) : x[i] = x[1]
        THEN [err |-> "ValueError", slope |-> NaN]
        ELSE [err |-> "none",
              slope |-> IF den.n = 0 THEN NaN
                        ELSE Rat(num.n * den.d, num.d * den.n)]

sea_level_rise(df) ==
    LET clean_data == dropna(df)
        x_value == [i \in Idx(clean_data) |-> date2num(clean_data[i].Time)]
        y_value == SeaLevelCol(clean_data)
        r == linregress(x_value, y_value)
    IN  [err |-> r.err,
         ret |-> IF r.err = "none"
                 THEN [slope |-> r.slope, p_value |-> "p_value"]
                 ELSE <<>>]

\* uptide.harmonic_analysis: one amplitude and one phase per constituent;
\* a fit without samples fails.
harmonic_analysis(constituents, sea_level_data, seconds_since, lib) ==
    IF Len(sea_level_data) = 0 \/ lib = "raise"
    THEN [err |-> "LibraryError", ret |-> <<>>]
    ELSE [err |-> "none",
          ret |-> [amp |-> [c \in Idx(constituents) |-> "amplitude"],
                   pha |-> [c \in Idx(constituents) |-> "phase"]]]

tidal_analysis(df, constituents, start_datetime, lib) ==
    LET seconds_since == [i \in Idx(df) |-> df[i].Time - start_datetime]
        sea_level_data == SeaLevelCol(df)
        valid_data == [i \in Idx(df) |-> notna(sea_level_data[i])]
    IN  harmonic_analysis(constituents,
                          BoolIndex(sea_level_data, valid_data),
                          BoolIndex(seconds_since, valid_data), lib)

\* data.index.min(): the earliest timestamp, missing (NaT) for no rows.
index_min(df) ==
    IF Len(df) = 0 THEN -1
    ELSE CHOOSE t \in {df[i].Time : i \in Idx(df)} :
            \A i \in Idx(df) : t <= df[i].Time

(***************************************************************************)
(* Spec: a caller that holds two series kept in timestamp order, as        *)
(* read_tidal_data and join_data return them, and calls the downstream     *)
(* functions on them in any order.                                         *)
(***************************************************************************)
Levels == {NaN, Num(1), Num(2)}

SeriesOf(c) ==
    [i \in Idx(c) |->
        [Time |-> c[i][1], Cycle |-> i, SeaLevel |-> c[i][2],
         Residual |-> Num(0)]]

SortedSeries(n) ==
    {SeriesOf(c) : c \in {q \in SeqsUpTo(Times \X Levels, n) :
                            \A i \in 1 .. Len(q) - 1 : q[i][1] <= q[i + 1][1]}}

\* The second argument of join_data: no row, or one row at the first tick.
SecondSeries == {<<>>, SeriesOf(<<<<0, Num(2)>>>>)}

Libs == {"ok", "raise"}

Init ==
    /\ pc = "idle"
    /\ dir = <<>>
    /\ data = <<>>
    /\ data1 \in SortedSeries(MaxLen)
    /\ data2 \in SecondSeries
    /\ args = [op |-> "none"]
    /\ ret = <<>>
    /\ err = "none"
    /\ out = <<>>

Callable == pc = "idle"

\* The caller takes the result or the exception and goes on to its next call.
Return ==
    /\ pc = "returned"
    /\ pc' = "idle"
    /\ ret' = <<>>
    /\ err' = "none"
    /\ args' = [op |-> "none"]
    /\ UNCHANGED <<dir, data, data1, data2, out>>

ExtractYear ==
    /\ Callable
    /\ \E year \in Years :
          LET r == extract_single_year_remove_mean(year, data1)
          IN  /\ ret' = r.ret
              /\ data1' = r.data
              /\ args' = [op |-> "extract_single_year_remove_mean",
                          year |-> year]
    /\ err' = "none"
    /\ pc' = "returned"
    /\ UNCHANGED <<dir, data, data2, out>>

ExtractSection ==
    /\ Callable
    /\ \E start \in Times, end \in Times :
          LET r == extract_section_remove_mean(start, end, data1)
          IN  /\ ret' = r.ret
              /\ data1' = r.data
              /\ args' = [op |-> "extract_section_remove_mean",
                          start |-> start, end |-> end]
    /\ err' = "none"
    /\ pc' = "returned"
    /\ UNCHANGED <<dir, data, data2, out>>

SeaLevelRise ==
    /\ Callable
    /\ LET r == sea_level_rise(data1)
       IN  /\ ret' = r.ret
           /\ err' = r.err
    /\ args' = [op |-> "sea_level_rise"]
    /\ pc' = "returned"
    /\ UNCHANGED <<dir, data, data1, data2, out>>

Constituents == <<"M2", "S2">>

TidalAnalysis ==
    /\ Callable
    /\ \E lib \in Libs :
          LET r == tidal_analysis(data1, Constituents, index_min(data1), lib)
          IN  /\ ret' = r.ret
              /\ err' = r.err
    /\ args' = [op |-> "tidal_analysis"]
    /\ pc' = "returned"
    /\ UNCHANGED <<dir, data, data1, data2, out>>

Next ==
    \/ ExtractYear
    \/ ExtractSection
    \/ JoinData
    \/ SeaLevelRise
    \/ TidalAnalysis
    \/ GetLongest
    \/ Return

Spec == Init /\ [][Next]_vars

(***************************************************************************)
(* SpecRead: read_tidal_data on a single file whose rows are in time       *)
(* order, with every combination of literals.                              *)
(***************************************************************************)
SeaLits == {[n |-> v, f |-> x] : v \in {1, 2}, x \in Suffixes}
ResLits == {[n |-> 3, f |-> x] : x \in Suffixes}

\* The file with the given literals, one row per tick.
FileOf(lits) ==
    [i \in Idx(lits) |->
        [Cycle |-> i,
         Date |-> (i - 1) \div TicksPerYear,
         Tod |-> (i - 1) % TicksPerYear,
         SeaLevel |-> lits[i][1],
         Residual |-> lits[i][2]]]

ReadInputs == {<<FileOf(l)>> : l \in SeqsUpTo(SeaLits \X ResLits, MaxRows)}

InitRead ==
    /\ pc = "reading"
    /\ dir \in ReadInputs
    /\ data = <<>>
    /\ data1 = <<>>
    /\ data2 = <<>>
    /\ args = [op |-> "read_tidal_data"]
    /\ ret = <<>>
    /\ err = "none"
    /\ out = <<>>

NextRead == ReadFile \/ Combine

SpecRead == InitRead /\ [][NextRead]_vars

(***************************************************************************)
(* SpecMerge: join_data on two frames, and read_tidal_data over the files  *)
(* of a directory, with rows in any order and repeated timestamps.         *)
(***************************************************************************)
MaxMerged == 3      \* most rows in all the inputs of one merge together

MergeTimes == {0, 1}
MergeLevels == {1, 2}

\* Rows lo+1 .. hi of the content c as a frame of their own.
FramePart(c, lo, hi) ==
    [i \in 1 .. hi - lo |->
        [Time |-> c[lo + i][1], Cycle |-> i,
         SeaLevel |-> Num(c[lo + i][2]), Residual |-> Num(0)]]

\* Rows lo+1 .. hi of the content c as a file of their own.
FilePart(c, lo, hi) ==
    [i \in 1 .. hi - lo |->
        [Cycle |-> i, Date |-> c[lo + i][1] \div TicksPerYear,
         Tod |-> c[lo + i][1] % TicksPerYear,
         SeaLevel |-> [n |-> c[lo + i][2], f |-> ""],
         Residual |-> [n |-> 0, f |-> ""]]]

MergeContents == SeqsUpTo(MergeTimes \X MergeLevels, MaxMerged)

\* Directories of one, two or three files.
MergeDirs ==
    {<<FilePart(c, 0, Len(c))>> : c \in MergeContents}
    \cup UNION {{<<FilePart(c, 0, i), FilePart(c, i, Len(c))>> :
                    i \in 0 .. Len(c)} : c \in MergeContents}
    \cup UNION {{<<FilePart(c, 0, s[1]), FilePart(c, s[1], s[2]),
                   FilePart(c, s[2], Len(c))>> :
                    s \in {t \in (0 .. Len(c)) \X (0 .. Len(c)) : t[1] <= t[2]}} :
                c \in MergeContents}

InitMerge ==
    /\ data = <<>>
    /\ ret = <<>>
    /\ err = "none"
    /\ out = <<>>
    /\ \/ /\ pc = "idle"
          /\ args = [op |-> "none"]
          /\ dir = <<>>
          /\ \E c \in MergeContents, i \in 0 .. MaxMerged :
                /\ i <= Len(c)
                /\ data1 = FramePart(c, 0, i)
                /\ data2 = FramePart(c, i, Len(c))
       \/ /\ pc = "reading"
          /\ args = [op |-> "read_tidal_data"]
          /\ dir \in MergeDirs
          /\ data1 = <<>>
          /\ data2 = <<>>

NextMerge == JoinData \/ ReadFile \/ Combine

SpecMerge == InitMerge /\ [][NextMerge]_vars

(***************************************************************************)
(* SpecMain: one run of the command-line program (lines 190-196) on a      *)
(* directory of no, one or two files.  An exception that nothing catches   *)
(* ends the run: err is set and no step follows.                           *)
(***************************************************************************)
\* Rows lo+1 .. hi of the literals c as a file, one row per tick.
MainFile(c, lo, hi) ==
    [i \in 1 .. hi - lo |->
        [Cycle |-> i,
         Date |-> (i - 1) \div TicksPerYear,
         Tod |-> (i - 1) % TicksPerYear,
         SeaLevel |-> c[lo + i],
         Residual |-> [n |-> 3, f |-> ""]]]

MainDirs ==
    {<<>>}
    \cup {<<MainFile(c, 0, Len(c))>> : c \in SeqsUpTo(SeaLits, MaxRows)}
    \cup UNION {{<<MainFile(c, 0, i), MainFile(c, i, Len(c))>> :
                    i \in 0 .. Len(c)} : c \in SeqsUpTo(SeaLits, MaxRows)}

InitMain ==
    /\ pc = "reading"
    /\ dir \in MainDirs
    /\ data = <<>>
    /\ data1 = <<>>
    /\ data2 = <<>>
    /\ args = [op |-> "read_tidal_data"]
    /\ ret = <<>>
    /\ err = "none"
    /\ out = <<>>

\* A mutant: a failure of tidal_analysis is caught and the run goes on.
MainTidalContinues ==
    /\ pc = "returned"
    /\ args.op = "read_tidal_data"
    /\ err = "none"
    /\ \E lib \in Libs :
          LET r == tidal_analysis(ret, Constituents, index_min(ret), lib)
          IN  /\ err' = r.err
              /\ ret' = r.ret
              /\ out' = IF r.err = "none"
                        THEN Append(out, [line |-> "Tidal constituents",
                                          amplitude |-> r.ret.amp,
                                          phase |-> r.ret.pha])
                        ELSE out
    /\ pc' = "line195"
    /\ data1' = ret
    /\ args' = [op |-> "tidal_analysis"]
    /\ UNCHANGED <<dir, data, data2>>

\* Lines 190-193: dataframe is what read_tidal_data returned; the harmonic
\* analysis, then the first result line.
MainTidal ==
    /\ pc = "returned"
    /\ args.op = "read_tidal_data"
    /\ err = "none"
    /\ \E lib \in Libs :
          LET r == tidal_analysis(ret, Constituents, index_min(ret), lib)
          IN  /\ err' = r.err
              /\ ret' = r.ret
              /\ IF r.err = "none"
                 THEN /\ out' = Append(out, [line |-> "Tidal constituents",
                                             amplitude |-> r.ret.amp,
                                             phase |-> r.ret.pha])
                      /\ pc' = "line195"
                 ELSE /\ out' = out
                      /\ pc' = "exited"
    /\ data1' = ret
    /\ args' = [op |-> "tidal_analysis"]
    /\ UNCHANGED <<dir, data, data2>>

\* Lines 195-196: the regression, then the second result line.
MainRise ==
    /\ pc = "line195"
    /\ LET r == sea_level_rise(data1)
       IN  /\ err' = r.err
           /\ ret' = r.ret
           /\ IF r.err = "none"
              THEN /\ out' = Append(out, [line |-> "Sea level rise",
                                          slope |-> r.ret.slope,
                                          p_value |-> r.ret.p_value])
                   /\ pc' = "done"
              ELSE /\ out' = out
                   /\ pc' = "exited"
    /\ args' = [op |-> "sea_level_rise"]
    /\ UNCHANGED <<dir, data, data1, data2>>

NextMain == ReadFile \/ Combine \/ MainTidal \/ MainRise

SpecMain == InitMain /\ [][NextMain]_vars

(***************************************************************************)
(* Claims about the contiguity finder (checked under SpecContig).          *)
(***************************************************************************)
Present(df, i) == notna(df[i].SeaLevel)

\* Rows i .. j of df are a maximal run of present observations.
IsMaximalRun(df, i, j) ==
    /\ 1 <= i /\ i <= j /\ j <= Len(df)
    /\ \A k \in i .. j : Present(df, k)
    /\ i = 1 \/ ~Present(df, i - 1)
    /\ j = Len(df) \/ ~Present(df, j + 1)

Runs(df) == {r \in Idx(df) \X Idx(df) : IsMaximalRun(df, r[1], r[2])}

ContigReturned == pc = "returned" /\ args.op = "get_longest_contiguous_data"

\* The pattern [P,P,M,P,P,P,M,P] of the specification's example.
ExampleMask == <<TRUE, TRUE, FALSE, TRUE, TRUE, TRUE, FALSE, TRUE>>

\* C1: on a series with at least one present sea level the finder returns,
\* without error, exactly one maximal run of present observations in the
\* original order, no other run is longer, and every run of the same length
\* starts at a higher index; on the example pattern it returns rows 4..6
\* (indices 3-5 counted from 0).
C1_LongestRunFirstOnTie ==
    (ContigReturned /\ \E i \in Idx(data1) : Present(data1, i)) =>
        /\ err = "none"
        /\ \E r \in Runs(data1) :
              /\ ret = SubSeq(data1, r[1], r[2])
              /\ \A q \in Runs(data1) :
                    \/ q[2] - q[1] < r[2] - r[1]
                    \/ q[2] - q[1] = r[2] - r[1] /\ r[1] <= q[1]
        /\ data1 = MaskSeries(ExampleMask) => ret = SubSeq(data1, 4, 6)

\* C1 witness: the finder has returned on a series in which two different
\* runs share the greatest length, and on the example pattern.
C1_Witness ==
    /\ ContigReturned
    /\ err = "none"
    /\ \E r \in Runs(data1), q \in Runs(data1) :
          /\ r[1] < q[1]
          /\ r[2] - r[1] = q[2] - q[1]
          /\ \A p \in Runs(data1) : p[2] - p[1] <= r[2] - r[1]
          /\ ret = SubSeq(data1, r[1], r[2])

\* C6: on a series with no present sea level (all missing, or empty) the
\* finder ends in an error and returns no segment.
C6_NoPresentRaises ==
    (ContigReturned /\ \A i \in Idx(data1) : ~Present(data1, i)) =>
        /\ err # "none"
        /\ ret = <<>>

\* C6 witness: the finder was called on a non-empty all-missing series and
\* raised.
C6_Witness ==
    /\ ContigReturned
    /\ Len(data1) > 1
    /\ \A i \in Idx(data1) : ~Present(data1, i)
    /\ err = "ValueError"

(***************************************************************************)
(* Claims about the record parser (checked under SpecRead, where the one   *)
(* file's rows are in time order, so row i of the result is row i of the   *)
(* file).                                                                  *)
(***************************************************************************)
ReadReturned == pc = "returned" /\ args.op = "read_tidal_data"

\* What the claim promises for one literal: the missing marker for a flag
\* letter, the number for a plain number, and never a raw string.
StoredAsPromised(lit, c) ==
    /\ lit.f \in FlagLetters => c = NaN
    /\ lit.f = "" => c = Num(lit.n)
    /\ c.k # "str"

\* C2: after read_tidal_data has returned a frame, in every row the sea
\* level and the residual whose literal ends in M, N or T are the missing
\* marker, every plain number is its numeric value, and no field of the two
\* is a raw string.
C2_FlaggedFieldsBecomeMissing ==
    (ReadReturned /\ err = "none") =>
        \A i \in Idx(ret) :
            /\ StoredAsPromised(dir[1][i].SeaLevel, ret[i].SeaLevel)
            /\ StoredAsPromised(dir[1][i].Residual, ret[i].Residual)

OtherSuffixRow(file) == \E i \in Idx(file) : file[i].SeaLevel.f = "X"

\* C9 as stated: a file with a sea level literal ending in a character that
\* is neither numeric nor M, N, T is parsed without error and that field is
\* the missing marker.
C9_OtherSuffixBecomesMissing ==
    (ReadReturned /\ OtherSuffixRow(dir[1])) =>
        /\ err = "none"
        /\ \A i \in Idx(dir[1]) :
              dir[1][i].SeaLevel.f = "X" => ret[i].SeaLevel = NaN

\* C9 amended: a file with a sea level literal made of a number and a
\* trailing character that is neither numeric nor M, N, T makes
\* read_tidal_data raise ValueError and return no frame.
C9_OtherSuffixFailsParse ==
    (ReadReturned /\ OtherSuffixRow(dir[1])) =>
        /\ err = "ValueError"
        /\ ret = <<>>

\* C9 witness: read_tidal_data has ended on a file that holds both a
\* flagged sea level and one with another trailing character.
C9_Witness ==
    /\ ReadReturned
    /\ OtherSuffixRow(dir[1])
    /\ \E i \in Idx(dir[1]) : dir[1][i].SeaLevel.f \in FlagLetters
    /\ err = "ValueError"

(***************************************************************************)
(* Claims about merging (checked under SpecMerge).                         *)
(***************************************************************************)
Count(sq, x) == Cardinality({i \in Idx(sq) : sq[i] = x})

SameBag(a, b) ==
    /\ Len(a) = Len(b)
    /\ \A i \in Idx(a) : Count(a, a[i]) = Count(b, a[i])

\* The observations given to the merge, inputs in order, rows in order.
MergeInput ==
    IF args.op = "join_data" THEN data1 \o data2 ELSE concat(data)

MergeReturned ==
    /\ pc = "returned"
    /\ err = "none"
    /\ args.op \in {"join_data", "read_tidal_data"}

\* C3: the result of join_data, and of read_tidal_data over the files of a
\* directory, has exactly the observations of the inputs (as many rows as
\* the inputs together, each as often as in the inputs), in non-decreasing
\* timestamp order.
C3_MergeIsSortedUnion ==
    MergeReturned =>
        /\ Len(ret) = Len(MergeInput)
        /\ args.op = "join_data" => Len(ret) = Len(data1) + Len(data2)
        /\ SameBag(ret, MergeInput)
        /\ IsMonotonic(ret)

\* C3 witness: a merge has returned for inputs that were out of order and
\* shared a timestamp, and a directory of three files has been read.
C3_Witness ==
    /\ MergeReturned
    /\ ~IsMonotonic(MergeInput)
    /\ \E i, j \in Idx(MergeInput) : i # j /\ MergeInput[i].Time = MergeInput[j].Time
    /\ args.op = "read_tidal_data" /\ Len(dir) = 3 /\ Len(ret) = MaxMerged

\* The rows of sq at tick t, in their order in sq.
AtTime(sq, t) == BoolIndex(sq, [i \in Idx(sq) |-> sq[i].Time = t])

\* C8 as stated: after a merge the observations that share a timestamp are
\* in their original input order.
C8_MergeIsStable ==
    MergeReturned =>
        \A t \in MergeTimes : AtTime(ret, t) = AtTime(MergeInput, t)

\* C8 amended: after a merge of inputs whose concatenation was already in
\* non-decreasing timestamp order the result is that concatenation, so
\* observations sharing a timestamp keep their input order; in every merge
\* the observations of one timestamp are those of the inputs, in some order.
C8_OrderedInputKeepsTieOrder ==
    MergeReturned =>
        /\ IsMonotonic(MergeInput) => ret = MergeInput
        /\ \A t \in MergeTimes : SameBag(AtTime(ret, t), AtTime(MergeInput, t))

\* C8 witness: a merge has returned for ordered inputs in which the first
\* input's last timestamp is the second input's first.
C8_Witness ==
    /\ MergeReturned
    /\ args.op = "join_data"
    /\ IsMonotonic(MergeInput)
    /\ Len(data1) > 0 /\ Len(data2) > 0
    /\ data1[Len(data1)].Time = data2[1].Time
    /\ data1[Len(data1)].SeaLevel # data2[1].SeaLevel
    /\ ret = data1 \o data2

(***************************************************************************)
(* Claims about the windowing functions and about the caller's series      *)
(* (checked under Spec).                                                   *)
(***************************************************************************)
WindowReturned ==
    /\ pc = "returned"
    /\ args.op \in {"extract_single_year_remove_mean",
                    "extract_section_remove_mean"}

\* The window the call asked for.
InWindow(t) ==
    IF args.op = "extract_single_year_remove_mean"
    THEN YearOf(t) = args.year
    ELSE args.start <= t /\ t <= args.end

\* The observations of data1 in the window, in their order.
Selection == BoolIndex(data1, [i \in Idx(data1) |-> InWindow(data1[i].Time)])

PresentIdx(sq) == {i \in Idx(sq) : notna(sq[i].SeaLevel)}

\* The sum of the sea levels (whole numbers in the input series) of the
\* present rows of sq.
TotalPresent(sq) ==
    LET F[i \in 0 .. Len(sq)] ==
            IF i = 0 THEN 0
            ELSE F[i - 1] + (IF notna(sq[i].SeaLevel) THEN sq[i].SeaLevel.n ELSE 0)
    IN  F[Len(sq)]

\* C4: when the selection has a present sea level, the output has the
\* selection's rows and timestamps, every missing value stays missing, every
\* present value v becomes v - total/count for the total and the count of
\* the selection's present values, and the present values of the output sum
\* to zero.
C4_MeanRemoved ==
    (WindowReturned /\ PresentIdx(Selection) # {}) =>
        LET sel == Selection
            cnt == Cardinality(PresentIdx(sel))
            total == TotalPresent(sel)
        IN  /\ Len(ret) = Len(sel)
            /\ \A i \in Idx(sel) :
                  /\ ret[i].Time = sel[i].Time
                  /\ ret[i].Cycle = sel[i].Cycle
                  /\ ret[i].Residual = sel[i].Residual
                  /\ IF notna(sel[i].SeaLevel)
                     THEN /\ ret[i].SeaLevel.k = "num"
                          /\ ret[i].SeaLevel.n * cnt
                               = (sel[i].SeaLevel.n * cnt - total) * ret[i].SeaLevel.d
                     ELSE ret[i].SeaLevel = NaN
            /\ FSum(SeaLevelCol(dropna(ret))) = Num(0)

\* C4 witness: a window with two different present values and a missing one
\* has been extracted, and the mean is not a whole number.
C4_Witness ==
    /\ WindowReturned
    /\ \E i, j, m \in Idx(ret) :
          /\ ret[i].SeaLevel.k = "num" /\ ret[i].SeaLevel.d = 2
          /\ ret[j].SeaLevel.k = "num" /\ ret[j].SeaLevel # ret[i].SeaLevel
          /\ ret[m].SeaLevel = NaN

Keys(sq) == [i \in Idx(sq) |-> <<sq[i].Time, sq[i].Cycle>>]

\* C5: the rows of the output are all and only the observations of the
\* series whose timestamp has the year asked for, or lies between start and
\* end with both bounds included, in their original order.
C5_WindowExact == WindowReturned => Keys(ret) = Keys(Selection)

\* C5 witness: a section has been extracted that keeps a row at start and a
\* row at end and leaves out a later row.
C5_Witness ==
    /\ WindowReturned
    /\ args.op = "extract_section_remove_mean"
    /\ args.start < args.end
    /\ \E i, j \in Idx(ret) : ret[i].Time = args.start /\ ret[j].Time = args.end
    /\ \E i \in Idx(data1) : data1[i].Time > args.end

\* C7: no call of a downstream function changes a series the caller holds.
C7_InputsUnchanged == [][data1' = data1 /\ data2' = data2]_vars

\* C7 witness: a section has been extracted whose values differ from those of
\* the caller's series: the function has written, into its own copy.
C7_Witness ==
    /\ WindowReturned
    /\ args.op = "extract_section_remove_mean"
    /\ \E i \in Idx(ret) : ret[i].SeaLevel # data1[ret[i].Cycle].SeaLevel
    /\ Len(data2) > 0

(***************************************************************************)
(* Claims about the command-line run (checked under SpecMain).             *)
(***************************************************************************)
Failed == err # "none"

\* C10 as stated: a run in which a stage fails has printed no result line.
C10_NoOutputOnFailure == Failed => out = <<>>

\* C10 amended: a failure ends the run at the failing stage, so nothing is
\* printed after it: a run in which parsing or tidal_analysis fails prints
\* no result line, a run in which sea_level_rise fails has printed the tidal
\* constituents line and nothing else.
C10_FailureHaltsRun ==
    /\ Failed => ~ENABLED NextMain
    /\ (Failed /\ args.op \in {"read_tidal_data", "tidal_analysis"}) => out = <<>>
    /\ (Failed /\ args.op = "sea_level_rise") =>
            Len(out) = 1 /\ out[1].line = "Tidal constituents"

\* C10 witness: the regression has refused a series whose samples all share
\* one timestamp, after the harmonic analysis succeeded.
C10_Witness ==
    /\ err = "ValueError"
    /\ args.op = "sea_level_rise"
    /\ pc = "exited"
    /\ Len(out) = 1

====
